---- MODULE Spec2Model ----
(***************************************************************************)
(* Model of the entry-level classifier of rabiuk/job-scraper               *)
(* (src/utils.py: clean_text, extract_min_years, is_entry_level).          *)
(*                                                                         *)
(* A job posting is a record of four fields.  A field is the value that    *)
(* job.get(<key>) yields: a Python str, None, a non-string object, or      *)
(* nothing at all when the key is missing.  Strings are TLA+ strings; the  *)
(* text routines work on their characters (Chars), as the regular          *)
(* expressions of the source do.                                           *)
(*                                                                         *)
(* Around the classifier stand its callers: the loop that classifies one   *)
(* posting after another (src/boards_scraper/linkedin_utils.py), the text  *)
(* routines called on their own, and the polling loop of the job boards    *)
(* (src/boards_scraper/boards_scraper.py) with its notifications.  Each    *)
(* has a specification of its own over the same variables.                 *)
(***************************************************************************)
EXTENDS Integers, Sequences, FiniteSets, TLC

VARIABLES
    job,            \* the posting: the dict passed to is_entry_level
    pc,             \* "call" before the function under study has run, "done"
                    \* after it returned, "raised" after an exception left it
    title,          \* the locals of is_entry_level: the normalised fields
    description,
    min_qual,
    pref_qual,
    verdict,        \* the value is_entry_level returned
    step,           \* the step (1..6) whose return statement returned it
    calls,          \* the calls of is_entry_level that returned, in order:
                    \* the posting of each and its verdict
    raw,            \* the argument (text) of clean_text or of extract_min_years
                    \* when the function is called on its own
    cleaned,        \* the value clean_text returned
    parts,          \* the expressions and words that the argument is made of
    years,          \* the value extract_min_years returned
    board,          \* the polling loop of the job boards: the index of the
                    \* board that main scrapes next in this cycle
    seen_jobs,      \* the keys of the dict seen_jobs
    seen_file,      \* the keys that save_seen_jobs has written to the file
    cycle_jobs,     \* the urls taken in this cycle
    new_jobs_to_send,   \* the postings of this cycle that await their message
    channel,        \* the keys of the postings whose message Discord accepted
    admitted,       \* the keys of the postings that is_entry_level admitted
    flags,          \* the flags has_simplify_jobs, ... that are True
    sent,           \* the calls of send_discord_message in this cycle, in order
    alerted,        \* the cycle start messages of this cycle have been sent
    webhook_url,    \* the arguments of send_discord_message when the function
    content,        \* is called on its own
    received,       \* the responses to its POST requests so far, in order
    returned,       \* "none" while it runs, then what it returned, or "raised"
    page,           \* scrape_simplify: the page it fetches next
    page_hits,      \* the hits of the page it fetched last
    total_found,    \* result["found"] of that page
    jobs,           \* the number of jobs it has collected
    stop,           \* "none" while it pages, then the reason of the break
    companies,      \* the company loop: the names in the companies file
    company,        \* the index of the company that main visits next
    new_jobs_count, \* the local new_jobs_count: <<>> before its first
                    \* assignment, then <<its value>>
    phase,          \* "cycle", "sleep" or "raised"
    emailed         \* the urls send_email has been called with

classifierVars ==
    <<job, pc, title, description, min_qual, pref_qual, verdict, step, calls>>

routineVars == <<raw, cleaned, parts, years>>

loopVars ==
    <<board, seen_jobs, seen_file, cycle_jobs, new_jobs_to_send, channel, admitted,
      flags, sent, alerted>>

sendVars == <<webhook_url, content, received, returned>>

pageVars == <<page, page_hits, total_found, jobs, stop>>

companyVars == <<companies, company, new_jobs_count, phase, emailed>>

vars == <<classifierVars, routineVars, loopVars, sendVars, pageVars, companyVars>>

(***************************************************************************)
(* Characters.                                                             *)
(***************************************************************************)
Chars(s) == [i \in 1..Len(s) |-> SubSeq(s, i, i)]

UpperChars == Chars("ABCDEFGHIJKLMNOPQRSTUVWXYZ")
LowerChars == Chars("abcdefghijklmnopqrstuvwxyz")
DigitChars == Chars("0123456789")

Range(f) == {f[i] : i \in DOMAIN f}

Uppers == Range(UpperChars)
Letters == Range(UpperChars) \cup Range(LowerChars)
Digits == Range(DigitChars)
\* \w of Python's re: letters, digits and the underscore
WordChars == Letters \cup Digits \cup {"_"}

IsUpper(c) == c \in Uppers
IsLetter(c) == c \in Letters
IsDigit(c) == c \in Digits
IsWordChar(c) == c \in WordChars
\* \s of Python's re, and the separators of str.split()
IsSpace(c) == c \in {" ", "\t", "\n", "\r"}

\* str.lower() on one character
LowerChar(c) ==
    IF IsUpper(c)
    THEN LowerChars[CHOOSE i \in DOMAIN UpperChars : UpperChars[i] = c]
    ELSE c

\* int() of one decimal digit
DigitVal(c) == (CHOOSE i \in DOMAIN DigitChars : DigitChars[i] = c) - 1

\* t[i], or a non-character past either end of the text
At(t, i) == IF i \in 1..Len(t) THEN t[i] ELSE "<eof>"

\* the literal lit stands in t at position i
LitAt(t, lit, i) ==
    /\ i + Len(lit) - 1 <= Len(t)
    /\ \A k \in 1..Len(lit) : t[i + k - 1] = lit[k]

(***************************************************************************)
(* clean_text (src/utils.py:99-108).                                       *)
(***************************************************************************)
\* the value of a field of the job record
StrVal(s) == [kind |-> "str", val |-> s]
NoneVal == [kind |-> "none", val |-> ""]
NonStrVal == [kind |-> "nonstr", val |-> ""]
Absent == [kind |-> "absent", val |-> ""]

\* job.get(key, ""): the default replaces a missing key only
GetOrEmpty(v) == IF v.kind = "absent" THEN StrVal("") ELSE v

\* Python truth of job.get(key): a missing key gives None
Truthy(v) == (v.kind = "str" /\ v.val # "") \/ v.kind = "nonstr"

\* "<" opens a tag for html.parser when a letter or "/" follows and a ">" closes
\* it; "<!" and "<?" open a declaration, a comment or a processing instruction,
\* which the parser drops up to the ">" as it drops a tag
TagOpensAt(t, i) ==
    /\ At(t, i) = "<"
    /\ IsLetter(At(t, i + 1)) \/ At(t, i + 1) \in {"/", "!", "?"}
    /\ \E j \in (i + 1)..Len(t) : t[j] = ">"

\* t[i] belongs to a tag: one of the positions opens, where a "<" opens a tag,
\* lies at or before i with no ">" in between
InTag(t, opens, i) ==
    \E p \in opens : p <= i /\ \A k \in p..(i - 1) : t[k] # ">"

\* the names html.parser knows after "<![" (parse_marked_section)
KnownSections ==
    {<<"t", "e", "m", "p">>, <<"c", "d", "a", "t", "a">>,
     <<"i", "g", "n", "o", "r", "e">>, <<"i", "n", "c", "l", "u", "d", "e">>,
     <<"r", "c", "d", "a", "t", "a">>, <<"i", "f">>, <<"e", "l", "s", "e">>,
     <<"e", "n", "d", "i", "f">>}

\* [a-zA-Z][-_.a-zA-Z0-9]* at t[i]: the length of the name, 0 when none stands there
NameRun(t, i) ==
    IF ~IsLetter(At(t, i)) THEN 0
    ELSE CHOOSE n \in 1..Len(t) :
             /\ \A k \in 1..(n - 1) : At(t, i + k) \in WordChars \cup {"-", "."}
             /\ At(t, i + n) \notin WordChars \cup {"-", "."}

\* the name of n characters at t[i] is not one html.parser knows, and the text
\* goes on after it
UnknownSection(t, i, n) ==
    \/ n = 0
    \/ /\ \E k \in (i + n)..Len(t) : ~IsSpace(t[k])
       /\ [k \in 1..n |-> LowerChar(t[i + k - 1])] \notin KnownSections

\* a marked section "<![" opens at t[i] whose name html.parser rejects with an
\* AssertionError, which BeautifulSoup raises again as ParserRejectedMarkup
RejectedAt(t, i) ==
    /\ At(t, i) = "<" /\ At(t, i + 1) = "!" /\ At(t, i + 2) = "["
    /\ i + 3 <= Len(t)
    /\ UnknownSection(t, i + 3, NameRun(t, i + 3))

Dropped == "<dropped>"

\* what a variable holds before the function that sets it has returned
Unset == <<"<unset>">>

Keep(c) == c # Dropped

\* the character references html.parser decodes in text (convert_charrefs),
\* of which the model knows three, and the characters they stand for
CharRefLits == <<Chars("&lt;"), Chars("&gt;"), Chars("&amp;")>>
CharRefChars == <<"<", ">", "&">>

\* the number of the character reference that stands at t[i], 0 when none does
CharRefAt(t, i) ==
    IF LitAt(t, CharRefLits[1], i) THEN 1
    ELSE IF LitAt(t, CharRefLits[2], i) THEN 2
    ELSE IF LitAt(t, CharRefLits[3], i) THEN 3
    ELSE 0

\* t[i] is a later character of a character reference
InCharRef(t, i) ==
    \E r \in DOMAIN CharRefLits :
        \E k \in 1..(Len(CharRefLits[r]) - 1) :
            i - k >= 1 /\ LitAt(t, CharRefLits[r], i - k)

\* what a character of the text outside the tags gives: itself, or the
\* character that the reference it opens stands for
TextChar(t, i, r) ==
    IF r # 0 THEN CharRefChars[r]
    ELSE IF InCharRef(t, i) THEN Dropped
    ELSE t[i]

\* BeautifulSoup(text, "html.parser").get_text(separator=" "): the text outside
\* the tags, with the separator where a tag stood between two text nodes
GetText(t) ==
    LET opens == {p \in 1..Len(t) : TagOpensAt(t, p)}
    IN  SelectSeq([i \in 1..Len(t) |->
                      IF ~InTag(t, opens, i) THEN TextChar(t, i, CharRefAt(t, i))
                      ELSE IF t[i] = ">" THEN " "
                      ELSE Dropped],
                  Keep)

\* " ".join(plain_text.split()): of every run of whitespace that stands between
\* two words one space is left, of a leading or trailing run nothing
SplitJoin(t) ==
    SelectSeq([i \in 1..Len(t) |->
                  IF ~IsSpace(t[i]) THEN t[i]
                  ELSE IF /\ i > 1
                          /\ ~IsSpace(t[i - 1])
                          /\ \E k \in (i + 1)..Len(t) : ~IsSpace(t[k])
                  THEN " "
                  ELSE Dropped],
              Keep)

\* Lower that leaves the capitals
LowerNot(t) == t

Lower(t) == [i \in 1..Len(t) |-> LowerChar(t[i])]

\* BeautifulSoup(text, "html.parser") rejects the text: the parser meets, outside
\* every tag, a marked section it does not know
ParserRejects(t) ==
    \E i \in 1..Len(t) :
        /\ RejectedAt(t, i)
        /\ ~InTag(t, {p \in 1..(i - 1) : TagOpensAt(t, p)}, i)

\* clean_text without the guard of line 100: what is no string is cleaned as
\* the text of its name
CleanTextOfAnything(v) ==
    IF v.kind = "str" THEN Lower(SplitJoin(GetText(Chars(v.val))))
    ELSE Lower(Chars("None"))

clean_text(v) ==
    IF v.kind # "str" \/ v.val = "" THEN <<>>
    ELSE Lower(SplitJoin(GetText(Chars(v.val))))

(***************************************************************************)
(* Regular-expression primitives.                                          *)
(***************************************************************************)
\* \b between t[i-1] and t[i]
WordBoundary(t, i) == IsWordChar(At(t, i - 1)) # IsWordChar(At(t, i))

\* SearchWord without the word boundaries: kw matches as a part of a word too
SearchWordAsPart(kw, t) ==
    \E i \in 1..Len(t) : LitAt(t, kw, i)

\* re.search(rf'\b{kw}\b', t)
SearchWord(kw, t) ==
    \E i \in 1..Len(t) :
        /\ LitAt(t, kw, i)
        /\ WordBoundary(t, i)
        /\ WordBoundary(t, i + Len(kw))

\* phrase in t
Contains(phrase, t) == \E i \in 1..Len(t) : LitAt(t, phrase, i)

\* length of the longest run of digits / of whitespace that starts at t[i]
DigitRun(t, i) ==
    CHOOSE n \in 0..Len(t) :
        /\ \A k \in 0..(n - 1) : IsDigit(At(t, i + k))
        /\ ~IsDigit(At(t, i + n))

SpaceRun(t, i) ==
    CHOOSE n \in 0..Len(t) :
        /\ \A k \in 0..(n - 1) : IsSpace(At(t, i + k))
        /\ ~IsSpace(At(t, i + n))

\* int(t[i .. i+n-1])
RECURSIVE ToInt(_, _, _)
ToInt(t, i, n) ==
    IF n = 0 THEN 0 ELSE 10 * ToInt(t, i, n - 1) + DigitVal(t[i + n - 1])

(***************************************************************************)
(* extract_min_years (src/utils.py:111-128).                               *)
(*                                                                         *)
(* A match attempt of a pattern at position i gives ok, the captured       *)
(* integer cap and the position end that follows the match.  Every         *)
(* quantifier of the three patterns is greedy and is followed by text it   *)
(* cannot itself match, so the greedy choice is the only one that can      *)
(* succeed.                                                                *)
(***************************************************************************)
NoMatch == [ok |-> FALSE, cap |-> 0, end |-> 0]

YearLit == Chars("year")
AtLeastLit == Chars("at least ")

\* years? at position y
YearsFrom(t, y, cap) ==
    IF LitAt(t, YearLit, y)
    THEN [ok |-> TRUE, cap |-> cap,
          end |-> IF At(t, y + 4) = "s" THEN y + 5 ELSE y + 4]
    ELSE NoMatch

\* \s*years? at position i
YearsAt(t, i, cap) == YearsFrom(t, i + SpaceRun(t, i), cap)

\* \+?\s*years? at position k
PlusYearsAt(t, k, cap) == YearsAt(t, IF At(t, k) = "+" THEN k + 1 ELSE k, cap)

\* \d*\+?\s*years? at position i
RangeEndAt(t, i, cap) == PlusYearsAt(t, i + DigitRun(t, i), cap)

\* (\d+)-(\d*\+?)\s*years? at position i, where n digits stand
RangeAfter(t, i, n) ==
    IF n > 0 /\ At(t, i + n) = "-"
    THEN RangeEndAt(t, i + n + 1, ToInt(t, i, n))
    ELSE NoMatch

\* RangeAt of an extractor without the range pattern
RangeAtNever(t, i) == NoMatch

RangeAt(t, i) == RangeAfter(t, i, DigitRun(t, i))

\* (\d+)\s*years? at position i, where n digits stand
StandaloneAfter(t, i, n) ==
    IF n > 0 THEN YearsAt(t, i + n, ToInt(t, i, n)) ELSE NoMatch

StandaloneAt(t, i) == StandaloneAfter(t, i, DigitRun(t, i))

\* (\d+)\+\s*years?|at least (\d+)\s*years? at position i, where n digits stand
PlusAfter(t, i, n) ==
    IF n > 0 /\ At(t, i + n) = "+"
    THEN YearsAt(t, i + n + 1, ToInt(t, i, n))
    ELSE IF LitAt(t, AtLeastLit, i)
    THEN StandaloneAt(t, i + Len(AtLeastLit))
    ELSE NoMatch

PlusAt(t, i) == PlusAfter(t, i, DigitRun(t, i))

MatchAt(pat, t, i) ==
    CASE pat = "range" -> RangeAt(t, i)
      [] pat = "plus" -> PlusAt(t, i)
      [] pat = "standalone" -> StandaloneAt(t, i)

MinOf(S) == CHOOSE x \in S : \A y \in S : x <= y

\* the scan of re.findall over the match attempts M[1..Len(t)]: the capture of
\* the leftmost match at or after position i, then the scan from its end
RECURSIVE Scan(_, _)
TakeMatch(M, j) == <<M[j].cap>> \o Scan(M, M[j].end)

ScanStarts(M, starts) == IF starts = {} THEN <<>> ELSE TakeMatch(M, MinOf(starts))

Scan(M, i) == ScanStarts(M, {j \in i..Len(M) : M[j].ok})

\* re.findall(pat, t): the captures of the successive non-overlapping matches
FindAll(pat, t) == Scan([j \in 1..Len(t) |-> MatchAt(pat, t, j)], 1)

\* for match in standalone_matches: if int(match) not in min_years: append
RECURSIVE AppendNew(_, _)
AppendNew(list, caps) ==
    IF caps = <<>> THEN list
    ELSE AppendNew(IF Head(caps) \in Range(list) THEN list
                   ELSE Append(list, Head(caps)),
                   Tail(caps))

\* the list min_years at the return statement, t being text.lower()
MinYearsOfLower(t) ==
    AppendNew(FindAll("range", t) \o FindAll("plus", t), FindAll("standalone", t))

MinYearsList(text) == MinYearsOfLower(Lower(text))

\* MinOrZero that returns the first capture instead of the least
MinOrZeroFirst(min_years) == IF min_years # <<>> THEN min_years[1] ELSE 0

\* min(min_years) if min_years else 0
MinOrZero(min_years) == IF min_years # <<>> THEN MinOf(Range(min_years)) ELSE 0

extract_min_years(text) == MinOrZero(MinYearsList(text))

(***************************************************************************)
(* is_entry_level (src/utils.py:130-195).                                  *)
(***************************************************************************)
positive_keywords == <<"junior", "associate", "intern">>
positive_phrases == <<"entry level", "entry-level", "new grad", "recent graduate",
                      "early career", "internship experience", "student", "beginner">>
negative_keywords == <<"senior", "head", "sr", "staff", "lead", "manager", "principal",
                       "expert", "vp", "director", "chief", "phd">>

PositiveKeywords == {Chars(kw) : kw \in Range(positive_keywords)}
PositivePhrases == {Chars(ph) : ph \in Range(positive_phrases)}
NegativeKeywords == {Chars(kw) : kw \in Range(negative_keywords)}
InternWord == Chars("intern")

\* the four fields after normalisation (lines 131-134)
NormTitle(j) == clean_text(GetOrEmpty(j.job_title))
NormField(v) == IF Truthy(v) THEN clean_text(GetOrEmpty(v)) ELSE <<>>
NormDescription(j) == NormField(j.job_description)
NormMinQual(j) == NormField(j.minimum_qualifications)
NormPrefQual(j) == NormField(j.preferred_qualifications)

\* the fields that reach BeautifulSoup: clean_text is called on the title
\* whatever it is and on another field when it is truthy, and parses a value
\* that is a non-empty str (lines 100, 131-134)
ParsedFields(j) ==
    {v \in {GetOrEmpty(j.job_title), j.job_description,
            j.minimum_qualifications, j.preferred_qualifications} :
        v.kind = "str" /\ v.val # ""}

\* str.strip()
Strip(t) ==
    IF \A i \in 1..Len(t) : IsSpace(t[i]) THEN <<>>
    ELSE LET a == CHOOSE i \in 1..Len(t) :
                      ~IsSpace(t[i]) /\ \A k \in 1..(i - 1) : IsSpace(t[k])
             b == CHOOSE i \in 1..Len(t) :
                      ~IsSpace(t[i]) /\ \A k \in (i + 1)..Len(t) : IsSpace(t[k])
         IN  SubSeq(t, a, b)

\* CombinedText with the description left out of the blob
CombinedTextQualOnly(mq, pq, d) ==
    Strip(mq \o <<" ">> \o pq)

\* CombinedText that stops at the first field with text
CombinedTextFirstField(mq, pq, d) ==
    IF mq # <<>> THEN mq ELSE IF pq # <<>> THEN pq ELSE d

\* combined_text = f"{min_qual} {pref_qual} {description}".strip() (line 166)
CombinedText(mq, pq, d) ==
    Strip(mq \o <<" ">> \o pq \o <<" ">> \o d)

\* HasInternInTitle of a classifier without the internship override
HasInternInTitleNever(t) == FALSE

\* step 1 (line 141)
HasInternInTitle(t) ==
    "intern" \in Range(positive_keywords) /\ SearchWord(InternWord, t)

\* HasNegativeKeywordsInTitle that lets a title with a positive keyword pass
HasNegativeKeywordsUnlessPositive(t) ==
    /\ \E kw \in NegativeKeywords : SearchWord(kw, t)
    /\ ~\E kw \in PositiveKeywords : SearchWord(kw, t)

\* step 2, has_negative_keywords_in_title (line 146)
HasNegativeKeywordsInTitle(t) ==
    \E kw \in NegativeKeywords : SearchWord(kw, t)

\* HasPositiveTitleDescription looking at the title alone
HasPositiveTitleOnly(t, d) ==
    \/ \E kw \in PositiveKeywords : SearchWord(kw, t)
    \/ \E ph \in PositivePhrases : Contains(ph, t)

\* step 3, has_positive_title_description (lines 153-156)
HasPositiveTitleDescription(t, d) ==
    \/ \E kw \in PositiveKeywords :
           SearchWord(kw, t) \/ SearchWord(kw, d)
    \/ \E ph \in PositivePhrases :
           Contains(ph, t) \/ Contains(ph, d)

\* step 4, has_zero_start_range: re.search(r'\b0-\d*\+?\s*years?', combined_text)
HasZeroStartRange(t) ==
    \E i \in 1..Len(t) :
        /\ WordBoundary(t, i)
        /\ t[i] = "0"
        /\ At(t, i + 1) = "-"
        /\ RangeEndAt(t, i + 2, 0).ok

\* step 5, has_positive_qual (lines 181-184)
HasPositiveQual(mq, pq) ==
    \/ \E kw \in PositiveKeywords :
           SearchWord(kw, mq) \/ SearchWord(kw, pq)
    \/ \E ph \in PositivePhrases :
           Contains(ph, mq) \/ Contains(ph, pq)

Returns(v, s) == [verdict |-> v, step |-> s]

\* ExperienceVerdict with the threshold at 0: one year is rejected
ExperienceVerdictAboveZero(min_years, has_zero_start_range) ==
    IF has_zero_start_range THEN Returns(TRUE, 4)
    ELSE IF min_years > 0 THEN Returns(FALSE, 4)
    ELSE Returns(TRUE, 4)

\* ExperienceVerdict that leaves a text without a stated year to step 5
ExperienceVerdictOfStatedYears(min_years, has_zero_start_range) ==
    IF has_zero_start_range THEN Returns(TRUE, 4)
    ELSE IF min_years > 1 THEN Returns(FALSE, 4)
    ELSE IF min_years = 1 THEN Returns(TRUE, 4)
    ELSE Returns(TRUE, 0)

\* step 4 on a non-empty combined_text (lines 168-178): the verdict, or step 0
\* when control falls through to step 5
ExperienceVerdict(min_years, has_zero_start_range) ==
    IF has_zero_start_range THEN Returns(TRUE, 4)
    ELSE IF min_years > 1 THEN Returns(FALSE, 4)
    ELSE IF min_years \in {0, 1} THEN Returns(TRUE, 4)
    ELSE Returns(TRUE, 0)

\* ExperienceCheck without the guard "if combined_text:"
ExperienceCheckUnguarded(combined_text) ==
    ExperienceVerdict(extract_min_years(combined_text),
                      HasZeroStartRange(combined_text))

\* step 4 (lines 166-178)
ExperienceCheck(combined_text) ==
    IF combined_text = <<>> THEN Returns(TRUE, 0)
    ELSE ExperienceVerdict(extract_min_years(combined_text),
                           HasZeroStartRange(combined_text))

\* QualificationsThenDefault with step 5 ahead of the verdict of step 4
QualificationsFirst(exp, mq, pq) ==
    IF HasPositiveQual(mq, pq) THEN Returns(TRUE, 5)
    ELSE IF exp.step = 4 THEN exp
    ELSE Returns(TRUE, 6)

\* the return of step 4 if it returned, else steps 5 and 6 (lines 173-195)
QualificationsThenDefault(exp, mq, pq) ==
    IF exp.step = 4 THEN exp
    ELSE IF HasPositiveQual(mq, pq) THEN Returns(TRUE, 5)
    ELSE Returns(TRUE, 6)

\* Decide with step 3 ahead of step 2
DecidePositiveFirst(t, d, mq, pq) ==
    IF HasInternInTitle(t) THEN Returns(TRUE, 1)
    ELSE IF HasPositiveTitleDescription(t, d) THEN Returns(TRUE, 3)
    ELSE IF HasNegativeKeywordsInTitle(t) THEN Returns(FALSE, 2)
    ELSE QualificationsThenDefault(ExperienceCheck(CombinedText(mq, pq, d)), mq, pq)

\* Decide with step 2 scanning the description and the qualifications too
DecideNegativeAnywhere(t, d, mq, pq) ==
    IF HasInternInTitle(t) THEN Returns(TRUE, 1)
    ELSE IF \/ HasNegativeKeywordsInTitle(t)
            \/ HasNegativeKeywordsInTitle(CombinedText(mq, pq, d))
    THEN Returns(FALSE, 2)
    ELSE IF HasPositiveTitleDescription(t, d) THEN Returns(TRUE, 3)
    ELSE QualificationsThenDefault(ExperienceCheck(CombinedText(mq, pq, d)), mq, pq)

\* Decide with a memory: whatever follows an admitted posting is admitted
DecideAfterAdmit(t, d, mq, pq) ==
    IF calls # <<>> /\ calls[Len(calls)].verdict THEN Returns(TRUE, 6)
    ELSE IF HasInternInTitle(t) THEN Returns(TRUE, 1)
    ELSE IF HasNegativeKeywordsInTitle(t) THEN Returns(FALSE, 2)
    ELSE IF HasPositiveTitleDescription(t, d) THEN Returns(TRUE, 3)
    ELSE QualificationsThenDefault(ExperienceCheck(CombinedText(mq, pq, d)), mq, pq)

\* steps 1-6 on the normalised fields: the verdict and the step (1..6) whose
\* return statement gave it
Decide(t, d, mq, pq) ==
    IF HasInternInTitle(t) THEN Returns(TRUE, 1)
    ELSE IF HasNegativeKeywordsInTitle(t) THEN Returns(FALSE, 2)
    ELSE IF HasPositiveTitleDescription(t, d) THEN Returns(TRUE, 3)
    ELSE QualificationsThenDefault(ExperienceCheck(CombinedText(mq, pq, d)), mq, pq)

is_entry_level(j) ==
    Decide(NormTitle(j), NormDescription(j), NormMinQual(j), NormPrefQual(j))

(***************************************************************************)
(* The postings handed to the classifier.  The text of a field is a        *)
(* sequence of vocabulary items separated by one space; a posting carries  *)
(* at most MaxItems items in its four fields together.  The vocabulary     *)
(* holds mixed case, markup, keywords as whole words and as parts of       *)
(* longer words, a phrase, and year expressions of every form the          *)
(* extractor knows, among them a bare number and a bare "years".           *)
(***************************************************************************)
MaxItems == 2

Vocabulary ==
    {"Intern", "Senior", "leadership", "<b>Junior</b>", "internship experience",
     "0-2 years", "5+ years", "1 year", "2-3+ years", "at least 3 years",
     "5", "years"}

ItemSeqs(n) == UNION {[1..k -> Vocabulary] : k \in 0..n}

RECURSIVE JoinItems(_)
JoinItems(items) ==
    IF items = <<>> THEN ""
    ELSE IF Len(items) = 1 THEN items[1]
    ELSE items[1] \o " " \o JoinItems(Tail(items))

Job(t, d, mq, pq) ==
    [job_title |-> t, job_description |-> d,
     minimum_qualifications |-> mq, preferred_qualifications |-> pq]

\* a record whose fields may be missing, None, not a string, empty or short
FieldShapes ==
    {Absent, NoneVal, NonStrVal, StrVal(""), StrVal("Senior"), StrVal("5+ years"),
     StrVal("<![x]>")}

\* no text routine is called on its own
RoutinesIdle ==
    /\ raw = NoneVal
    /\ cleaned = Unset
    /\ parts = <<>>
    /\ years = -1

\* the polling loop does not run
LoopIdle ==
    /\ board = 0
    /\ seen_jobs = {}
    /\ seen_file = {}
    /\ cycle_jobs = {}
    /\ new_jobs_to_send = <<>>
    /\ channel = {}
    /\ admitted = {}
    /\ flags = {}
    /\ sent = <<>>
    /\ alerted = FALSE

\* send_discord_message is not called on its own
SendIdle ==
    /\ webhook_url = ""
    /\ content = ""
    /\ received = <<>>
    /\ returned = "none"

\* scrape_simplify is not called on its own
PagingIdle ==
    /\ page = 0
    /\ page_hits = <<>>
    /\ total_found = 0
    /\ jobs = 0
    /\ stop = "none"

\* the polling loop of the companies does not run
CompanyIdle ==
    /\ companies = <<>>
    /\ company = 0
    /\ new_jobs_count = <<>>
    /\ phase = "idle"
    /\ emailed = {}

InitText ==
    \E a \in ItemSeqs(MaxItems) :
      \E b \in ItemSeqs(MaxItems - Len(a)) :
        \E c \in ItemSeqs(MaxItems - Len(a) - Len(b)) :
          \E d \in ItemSeqs(MaxItems - Len(a) - Len(b) - Len(c)) :
            job = Job(StrVal(JoinItems(a)), StrVal(JoinItems(b)),
                      StrVal(JoinItems(c)), StrVal(JoinItems(d)))

InitShape ==
    \E a, b, c, d \in FieldShapes : job = Job(a, b, c, d)

Init ==
    /\ InitText \/ InitShape
    /\ pc = "call"
    /\ title = <<>>
    /\ description = <<>>
    /\ min_qual = <<>>
    /\ pref_qual = <<>>
    /\ verdict = FALSE
    /\ step = 0
    /\ calls = <<>>
    /\ RoutinesIdle
    /\ LoopIdle
    /\ SendIdle
    /\ PagingIdle
    /\ CompanyIdle

\* a caller applies is_entry_level to the posting, and the call returns
IsEntryLevel ==
    /\ pc = "call"
    /\ title' = NormTitle(job)
    /\ description' = NormDescription(job)
    /\ min_qual' = NormMinQual(job)
    /\ pref_qual' = NormPrefQual(job)
    /\ LET r == Decide(title', description', min_qual', pref_qual')
       IN  /\ verdict' = r.verdict
           /\ step' = r.step
    /\ calls' = Append(calls, [job |-> job, verdict |-> verdict'])
    /\ pc' = "done"
    /\ UNCHANGED <<job, routineVars, loopVars, sendVars,
                   pageVars, companyVars>>

\* a caller applies is_entry_level to the posting, and BeautifulSoup raises
\* ParserRejectedMarkup out of clean_text and out of is_entry_level, which
\* catches nothing.  Interpreters that read an unknown marked section as a
\* comment return instead (IsEntryLevel): the build decides.
IsEntryLevelRaises ==
    /\ pc = "call"
    /\ \E v \in ParsedFields(job) : ParserRejects(Chars(v.val))
    /\ pc' = "raised"
    /\ UNCHANGED <<job, title, description, min_qual, pref_qual, verdict, step, calls>>
    /\ UNCHANGED <<routineVars, loopVars, sendVars,
                   pageVars, companyVars>>

Next == IsEntryLevel \/ IsEntryLevelRaises

Spec == Init /\ [][Next]_vars

TypeOK ==
    /\ pc \in {"call", "done", "raised"}
    /\ verdict \in BOOLEAN
    /\ step \in 0..6

(***************************************************************************)
(* The caller that classifies one posting after another: the loop of       *)
(* fetch_linkedin_jobs (src/boards_scraper/linkedin_utils.py:334-347)      *)
(* builds mock_job from the title and the description of each posting of   *)
(* the page and applies is_entry_level to it.  A page may list the same    *)
(* posting again.                                                          *)
(***************************************************************************)
MaxCalls == 3

\* mock_job = {"job_title": ..., "job_description": ...}
MockJob(t, d) == Job(StrVal(t), StrVal(d), Absent, Absent)

CallJobs ==
    {MockJob(t, d) : t \in {"Intern", "Senior", "leadership"},
                     d \in {"5+ years", "<b>Junior</b>"}}

InitCalls ==
    /\ job \in CallJobs
    /\ pc = "call"
    /\ title = <<>>
    /\ description = <<>>
    /\ min_qual = <<>>
    /\ pref_qual = <<>>
    /\ verdict = FALSE
    /\ step = 0
    /\ calls = <<>>
    /\ RoutinesIdle
    /\ LoopIdle
    /\ SendIdle
    /\ PagingIdle
    /\ CompanyIdle

\* the loop goes on to the next posting of the page: a new call begins
NextPosting ==
    /\ pc = "done"
    /\ Len(calls) < MaxCalls
    /\ job' \in CallJobs
    /\ pc' = "call"
    /\ title' = <<>>
    /\ description' = <<>>
    /\ min_qual' = <<>>
    /\ pref_qual' = <<>>
    /\ verdict' = FALSE
    /\ step' = 0
    /\ UNCHANGED <<calls, routineVars, loopVars, sendVars,
                   pageVars, companyVars>>

NextCalls == IsEntryLevel \/ NextPosting

SpecCalls == InitCalls /\ [][NextCalls]_vars

(***************************************************************************)
(* clean_text called on its own (src/utils.py:99-108), as the scrapers     *)
(* call it on a scraped title.  The argument is None, an object that is no *)
(* string, or a string of at most MaxPieces pieces: a word in mixed case,  *)
(* whitespace, tags, character references, a marked section.               *)
(***************************************************************************)
MaxPieces == 3

CleanPieces == {"Ab", " ", "\n", "<b>", "</b>", "&lt;", "&gt;", "<![x]>"}

PieceSeqs(n) == UNION {[1..k -> CleanPieces] : k \in 0..n}

RECURSIVE ConcatItems(_)
ConcatItems(items) ==
    IF items = <<>> THEN "" ELSE items[1] \o ConcatItems(Tail(items))

\* no posting is being classified
ClassifierIdle ==
    /\ job = Job(Absent, Absent, Absent, Absent)
    /\ title = <<>>
    /\ description = <<>>
    /\ min_qual = <<>>
    /\ pref_qual = <<>>
    /\ verdict = FALSE
    /\ step = 0
    /\ calls = <<>>

InitClean ==
    /\ \/ \E ps \in PieceSeqs(MaxPieces) :
              raw = StrVal(ConcatItems(ps)) /\ parts = ps
       \/ raw \in {NoneVal, NonStrVal} /\ parts = <<>>
    /\ pc = "call"
    /\ cleaned = Unset
    /\ years = -1
    /\ ClassifierIdle
    /\ LoopIdle
    /\ SendIdle
    /\ PagingIdle
    /\ CompanyIdle

\* clean_text(raw) returns
CleanText ==
    /\ pc = "call"
    /\ cleaned' = clean_text(raw)
    /\ pc' = "done"
    /\ UNCHANGED <<job, title, description, min_qual, pref_qual, verdict, step, calls>>
    /\ UNCHANGED <<raw, parts, years, loopVars, sendVars,
                   pageVars, companyVars>>

\* clean_text(raw) raises: BeautifulSoup rejects the markup (line 104); on
\* interpreters that read the marked section as a comment the call returns
CleanTextRaises ==
    /\ pc = "call"
    /\ raw.kind = "str" /\ raw.val # ""
    /\ ParserRejects(Chars(raw.val))
    /\ pc' = "raised"
    /\ UNCHANGED <<job, title, description, min_qual, pref_qual, verdict, step, calls>>
    /\ UNCHANGED <<routineVars, loopVars, sendVars,
                   pageVars, companyVars>>

NextClean == CleanText \/ CleanTextRaises

SpecClean == InitClean /\ [][NextClean]_vars

(***************************************************************************)
(* extract_min_years called on its own (src/utils.py:111-128).  The text   *)
(* is made of at most MaxParts parts separated by single spaces: years     *)
(* expressions of each form, an ascending and a descending range among     *)
(* them, and a word.                                                       *)
(***************************************************************************)
MaxParts == 3

YearParts ==
    {"5+ years", "0-2 years", "1 year", "2-3+ years", "at least 3 years",
     "5-3 years", "10 Years", "and"}

PartSeqs(n) == UNION {[1..k -> YearParts] : k \in 0..n}

InitYears ==
    /\ \E ps \in PartSeqs(MaxParts) :
           raw = StrVal(JoinItems(ps)) /\ parts = ps
    /\ pc = "call"
    /\ cleaned = Unset
    /\ years = -1
    /\ ClassifierIdle
    /\ LoopIdle
    /\ SendIdle
    /\ PagingIdle
    /\ CompanyIdle

\* extract_min_years(raw) returns
ExtractMinYears ==
    /\ pc = "call"
    /\ years' = extract_min_years(Chars(raw.val))
    /\ pc' = "done"
    /\ UNCHANGED <<job, title, description, min_qual, pref_qual, verdict, step, calls>>
    /\ UNCHANGED <<raw, cleaned, parts, loopVars, sendVars,
                   pageVars, companyVars>>

NextYears == ExtractMinYears

SpecYears == InitYears /\ [][NextYears]_vars

(***************************************************************************)
(* The polling loop of the job boards (src/boards_scraper/                 *)
(* boards_scraper.py:216-315).  A cycle scrapes the boards one after the   *)
(* other, takes the postings whose key is new, sends one Discord message   *)
(* per posting taken, writes seen_jobs to its file and sleeps.  What a     *)
(* site lists at the time of a scrape is any selection of its postings;    *)
(* what Discord answers to a request is any of the statuses.               *)
(***************************************************************************)
Boards == <<"Simplify", "LinkedIn", "Simplify", "LinkedIn">>

\* board.get("internship", False) of each board
Internship == <<FALSE, FALSE, TRUE, TRUE>>

Posting(k, t, d) == [key |-> k, url |-> k, job_title |-> t, description |-> d]

\* a posting the site shows again under another title: job_key is made of the
\* id and stays, simplify_url is made of the id and the title and changes
\* (boards_scraper.py:155-158)
Retitled(p, t) == [p EXCEPT !.job_title = t, !.url = p.key \o "/" \o t]

\* the postings of the sites, in the order in which a site lists them
SitePostings ==
    [Simplify |-> <<Posting("simplify-1", "Senior", ""),
                    Posting("simplify-2", "Intern", ""),
                    Retitled(Posting("simplify-1", "Senior", ""), "Junior")>>,
     LinkedIn |-> <<Posting("linkedin-1", "Senior", "5+ years"),
                    Posting("linkedin-2", "leadership", "<b>Junior</b>"),
                    Posting("linkedin-3-at-simplify", "Intern", "")>>]

\* the selections of the postings of a list, in its order
Listed(list) ==
    {SelectSeq(list, LAMBDA p : p \in S) : S \in SUBSET Range(list)}

\* is_entry_level(mock_job) of fetch_linkedin_jobs (linkedin_utils.py:344-345)
Admits(p) == is_entry_level(MockJob(p.job_title, p.description)).verdict

\* for job in new_jobs (boards_scraper.py:250-260): a posting whose key is not
\* in seen_jobs and whose url was not taken in this cycle is marked seen and
\* queued for its message
RECURSIVE TakeNew(_, _, _, _)
TakeNew(new_jobs, seen, cycle, queue) ==
    IF new_jobs = <<>>
    THEN [seen_jobs |-> seen, cycle_jobs |-> cycle, new_jobs_to_send |-> queue]
    ELSE IF Head(new_jobs).key \notin seen /\ Head(new_jobs).url \notin cycle
    THEN TakeNew(Tail(new_jobs), seen \cup {Head(new_jobs).key},
                 cycle \cup {Head(new_jobs).url}, Append(queue, Head(new_jobs)))
    ELSE TakeNew(Tail(new_jobs), seen, cycle, queue)

\* "simplify" in job_key
IsSimplifyKey(key) == Contains(Chars("simplify"), Chars(key))

\* the flag a new posting sets (lines 261-269)
FlagOf(key, is_internship) ==
    IF IsSimplifyKey(key)
    THEN IF is_internship THEN "has_simplify_internships" ELSE "has_simplify_jobs"
    ELSE IF is_internship THEN "has_linkedin_internships" ELSE "has_linkedin_jobs"

\* the flags in the order in which main tests them, and the webhook that the
\* cycle start message of each goes to (lines 284-291)
FlagOrder ==
    <<"has_simplify_jobs", "has_simplify_internships",
      "has_linkedin_jobs", "has_linkedin_internships">>

AlertWebhook ==
    [has_simplify_jobs |-> "SIMPLIFY_WEBHOOK_URL",
     has_simplify_internships |-> "SIMPLIFY_INTERNSHIP_WEBHOOK_URL",
     has_linkedin_jobs |-> "LINKEDIN_WEBHOOK_URL",
     has_linkedin_internships |-> "LINKEDIN_INTERNSHIP_WEBHOOK_URL"]

\* WebhookOf that looks at the source alone
WebhookOfSource(key, is_internship) ==
    IF IsSimplifyKey(key) THEN "SIMPLIFY_WEBHOOK_URL" ELSE "LINKEDIN_WEBHOOK_URL"

\* webhook_url of a posting's message (lines 303-308)
WebhookOf(key, is_internship) ==
    IF IsSimplifyKey(key)
    THEN IF is_internship THEN "SIMPLIFY_INTERNSHIP_WEBHOOK_URL"
         ELSE "SIMPLIFY_WEBHOOK_URL"
    ELSE IF is_internship THEN "LINKEDIN_INTERNSHIP_WEBHOOK_URL"
    ELSE "LINKEDIN_WEBHOOK_URL"

\* a call of send_discord_message: the webhook, the kind of content ("NEW JOB
\* ALERT", "New Job at", "New Internship at") and the posting's key
Call(webhook, kind, key) == [webhook_url |-> webhook, content |-> kind, key |-> key]

\* job["is_internship"] = is_internship (line 259) on the postings taken
Marked(taken, is_internship) ==
    [i \in DOMAIN taken |->
        [key |-> taken[i].key, url |-> taken[i].url, job_title |-> taken[i].job_title,
         description |-> taken[i].description, is_internship |-> is_internship]]

\* the queue after the postings taken from a board have joined it, and the
\* flags they set
Queue(old, taken, is_internship) ==
    /\ new_jobs_to_send' = old \o Marked(taken, is_internship)
    /\ flags' = flags \cup {FlagOf(p.key, is_internship) : p \in Range(taken)}
    /\ board' = board + 1

\* TakeBoard without the look at seen_jobs and cycle_jobs: every posting the
\* scraper returns is queued
TakeBoardAll(new_jobs) ==
    /\ seen_jobs' = seen_jobs \cup {p.key : p \in Range(new_jobs)}
    /\ cycle_jobs' = cycle_jobs \cup {p.url : p \in Range(new_jobs)}
    /\ Queue(new_jobs_to_send, new_jobs, Internship[board])

\* the body of "for board in boards" after the scraper has returned new_jobs
TakeBoard(new_jobs) ==
    LET r == TakeNew(new_jobs, seen_jobs, cycle_jobs, <<>>)
    IN  /\ seen_jobs' = r.seen_jobs
        /\ cycle_jobs' = r.cycle_jobs
        /\ Queue(new_jobs_to_send, r.new_jobs_to_send, Internship[board])

max_retries == 3

Statuses == {204, 429, 500}

\* send_discord_message (utils.py:47-64) on the answers Discord gives to the
\* attempts: True when an attempt gets 204 and every attempt before it 429
Delivered(responses) ==
    \E a \in 1..max_retries :
        /\ responses[a] = 204
        /\ \A b \in 1..(a - 1) : responses[b] = 429

InitBoards ==
    /\ board = 1
    /\ seen_jobs = {}
    /\ seen_file = {}
    /\ cycle_jobs = {}
    /\ new_jobs_to_send = <<>>
    /\ channel = {}
    /\ admitted = {}
    /\ flags = {}
    /\ sent = <<>>
    /\ alerted = FALSE
    /\ pc = "call"
    /\ ClassifierIdle
    /\ RoutinesIdle
    /\ SendIdle
    /\ PagingIdle
    /\ CompanyIdle

\* scrape_simplify (boards_scraper.py:33-183) and the loop over its jobs: the
\* hits of the API become jobs as they are
ScrapeSimplify ==
    /\ board \in DOMAIN Boards
    /\ Boards[board] = "Simplify"
    /\ \E hits \in Listed(SitePostings.Simplify) : TakeBoard(hits)
    /\ UNCHANGED <<seen_file, channel, admitted, sent, alerted>>
    /\ UNCHANGED <<classifierVars, routineVars, sendVars,
                   pageVars, companyVars>>

\* scrape_linkedin, fetch_linkedin_jobs (linkedin_utils.py:311-364) and the
\* loop over its jobs: a posting of the page becomes a job when is_entry_level
\* admits it
ScrapeLinkedIn ==
    /\ board \in DOMAIN Boards
    /\ Boards[board] = "LinkedIn"
    /\ \E job_postings \in Listed(SitePostings.LinkedIn) :
           /\ TakeBoard(SelectSeq(job_postings, Admits))
           /\ admitted' = admitted \cup
                  {p.key : p \in {q \in Range(job_postings) : Admits(q)}}
    /\ UNCHANGED <<seen_file, channel, sent, alerted>>
    /\ UNCHANGED <<classifierVars, routineVars, sendVars,
                   pageVars, companyVars>>

\* if total_new_jobs > 0: the cycle start message goes to the webhook of each
\* flag that is True (lines 282-291)
SendCycleStart ==
    /\ board > Len(Boards)
    /\ new_jobs_to_send # <<>>
    /\ ~alerted
    /\ sent' = [i \in DOMAIN SelectSeq(FlagOrder, LAMBDA f : f \in flags) |->
                  Call(AlertWebhook[SelectSeq(FlagOrder, LAMBDA f : f \in flags)[i]],
                       "NEW JOB ALERT", "")]
    /\ alerted' = TRUE
    /\ UNCHANGED <<board, seen_jobs, seen_file, cycle_jobs, new_jobs_to_send,
                   channel, admitted, flags>>
    /\ UNCHANGED <<classifierVars, routineVars, sendVars,
                   pageVars, companyVars>>

\* for job in new_jobs_to_send: await send_discord_message(webhook_url, ...)
\* (boards_scraper.py:293-310); main does not look at what it returns
SendDiscordMessage ==
    /\ board > Len(Boards)
    /\ new_jobs_to_send # <<>>
    /\ alerted
    /\ sent' = Append(sent, Call(WebhookOf(Head(new_jobs_to_send).key,
                                           Head(new_jobs_to_send).is_internship),
                                 IF Head(new_jobs_to_send).is_internship
                                 THEN "New Internship at" ELSE "New Job at",
                                 Head(new_jobs_to_send).key))
    /\ \E responses \in [1..max_retries -> Statuses] :
           channel' = IF Delivered(responses)
                      THEN channel \cup {Head(new_jobs_to_send).key}
                      ELSE channel
    /\ new_jobs_to_send' = Tail(new_jobs_to_send)
    /\ UNCHANGED <<board, seen_jobs, seen_file, cycle_jobs, admitted, flags, alerted>>
    /\ UNCHANGED <<classifierVars, routineVars, sendVars,
                   pageVars, companyVars>>

\* save_seen_jobs(seen_jobs, ...) at the end of the cycle (line 313); after the
\* sleep the next cycle begins with its flags and lists reset (lines 226-232)
SaveSeenJobs ==
    /\ board > Len(Boards)
    /\ new_jobs_to_send = <<>>
    /\ seen_file' = seen_jobs
    /\ board' = 1
    /\ cycle_jobs' = {}
    /\ flags' = {}
    /\ sent' = <<>>
    /\ alerted' = FALSE
    /\ UNCHANGED <<seen_jobs, new_jobs_to_send, channel, admitted>>
    /\ UNCHANGED <<classifierVars, routineVars, sendVars,
                   pageVars, companyVars>>

NextBoards ==
    \/ ScrapeSimplify
    \/ ScrapeLinkedIn
    \/ SendCycleStart
    \/ SendDiscordMessage
    \/ SaveSeenJobs

SpecBoards == InitBoards /\ [][NextBoards]_vars

(***************************************************************************)
(* send_discord_message (src/utils.py:47-64) called on its own.  Discord   *)
(* answers each POST with a status; the body of a 429 answer is JSON with  *)
(* a number under "retry_after", JSON without that key, or something that  *)
(* response.json(), .get or float cannot read (an HTML page, a list, a     *)
(* word), and then the exception leaves the function, which has no         *)
(* handler.                                                                *)
(***************************************************************************)
Webhooks ==
    {"SIMPLIFY_WEBHOOK_URL", "SIMPLIFY_INTERNSHIP_WEBHOOK_URL",
     "LINKEDIN_WEBHOOK_URL", "LINKEDIN_INTERNSHIP_WEBHOOK_URL"}

Contents == {"NEW JOB ALERT", "New Job at", "New Internship at"}

Bodies == {"retry_after", "no retry_after", "unreadable"}

Response(st, body) == [status |-> st, body |-> body]

WebhookResponses ==
    {Response(st, "") : st \in {200, 204, 400, 404, 500}}
        \cup {Response(429, b) : b \in Bodies}

\* the body of the for loop on one response (lines 52-62): what the function
\* returns, "raised", or "none" when the loop goes on
OnResponse(r) ==
    IF r.status = 204 THEN "True"
    ELSE IF r.status = 429
    THEN IF r.body = "unreadable" THEN "raised" ELSE "none"
    ELSE "False"

InitSend ==
    /\ webhook_url \in Webhooks
    /\ content \in Contents
    /\ received = <<>>
    /\ returned = "none"
    /\ pc = "call"
    /\ ClassifierIdle
    /\ RoutinesIdle
    /\ LoopIdle
    /\ PagingIdle
    /\ CompanyIdle

\* one pass of "for attempt in range(max_retries)": the POST, its response and
\* the branch taken on its status
Post ==
    /\ returned = "none"
    /\ Len(received) < max_retries
    /\ \E r \in WebhookResponses :
           /\ received' = Append(received, r)
           /\ returned' = OnResponse(r)
    /\ UNCHANGED <<webhook_url, content>>
    /\ UNCHANGED <<classifierVars, routineVars, loopVars,
                   pageVars, companyVars>>

\* the loop has run max_retries times: return False (lines 63-64)
RetriesExhausted ==
    /\ returned = "none"
    /\ Len(received) = max_retries
    /\ returned' = "False"
    /\ UNCHANGED <<webhook_url, content, received>>
    /\ UNCHANGED <<classifierVars, routineVars, loopVars,
                   pageVars, companyVars>>

NextSend == Post \/ RetriesExhausted

SpecSend == InitSend /\ [][NextSend]_vars

(***************************************************************************)
(* The paging of scrape_simplify (src/boards_scraper/boards_scraper.py:    *)
(* 56-183).  A hit carries updated_date, here as its age in days at the    *)
(* time of the scrape, or carries none (or one that is not an int).        *)
(***************************************************************************)
MaxHits == 3
MaxPages == 3

per_page == 21
cutoff_days == 14

Doc(dated, age) == [dated |-> dated, age |-> age]

Docs == {Doc(FALSE, 0), Doc(TRUE, 0), Doc(TRUE, 14), Doc(TRUE, 15)}

HitSeqs(n) == UNION {[1..k -> Docs] : k \in 0..n}

TotalFounds == {1, per_page, per_page + 1, 3 * per_page}

\* updated_date < cutoff_unix_time, for a hit that carries an int updated_date;
\* a hit without one is skipped before the test (lines 145-151)
IsStale(doc) == doc.dated /\ doc.age > cutoff_days

StaleCount(hits) == Len(SelectSeq(hits, IsStale))

FreshCount(hits) == Len(SelectSeq(hits, LAMBDA doc : doc.dated /\ ~IsStale(doc)))

\* stale_count >= len(hits) // 2 (line 170)
MajorityStale(stale_count, n) == stale_count >= n \div 2

\* the break that ends the pass over one page, "none" when page += 1 follows
\* (lines 133-177)
StopAfter(hits, found) ==
    IF hits = <<>> THEN "no results"
    ELSE IF MajorityStale(StaleCount(hits), Len(hits)) THEN "majority stale"
    ELSE IF page * per_page >= found THEN "end of results"
    ELSE "none"

InitSimplify ==
    /\ page = 1
    /\ page_hits = <<>>
    /\ total_found = 0
    /\ jobs = 0
    /\ stop = "none"
    /\ pc = "call"
    /\ ClassifierIdle
    /\ RoutinesIdle
    /\ LoopIdle
    /\ SendIdle
    /\ CompanyIdle

\* one pass of the while loop: the request, the loop over the hits of the page
\* and the tests that end the paging
FetchPage ==
    /\ stop = "none"
    /\ page <= MaxPages
    /\ \E hits \in HitSeqs(MaxHits), found \in TotalFounds :
           /\ page_hits' = hits
           /\ total_found' = found
           /\ jobs' = jobs + FreshCount(hits)
           /\ stop' = StopAfter(hits, found)
           /\ page' = IF StopAfter(hits, found) = "none" THEN page + 1 ELSE page
    /\ UNCHANGED <<classifierVars, routineVars, loopVars, sendVars, companyVars>>

\* the request fails: except requests.RequestException (lines 181-183)
ApiError ==
    /\ stop = "none"
    /\ page <= MaxPages
    /\ stop' = "api error"
    /\ UNCHANGED <<page, page_hits, total_found, jobs>>
    /\ UNCHANGED <<classifierVars, routineVars, loopVars, sendVars, companyVars>>

NextSimplify == FetchPage \/ ApiError

SpecSimplify == InitSimplify /\ [][NextSimplify]_vars

(***************************************************************************)
(* The polling loop of the companies (src/company_scraper/main.py:12-63).  *)
(* The companies file names any companies, some without a scraper in       *)
(* SCRAPERS; seen_jobs is this loop's dict, keyed by url.  new_jobs_count  *)
(* is a local of main that is assigned inside the loop over the companies  *)
(* only, after the scraper of a company has run.                           *)
(***************************************************************************)
MaxCompanies == 2

SCRAPERS == {"Amazon", "Intuit"}

CompanyNames == SCRAPERS \cup {"Acme"}

\* the urls of the postings on a company's career page, in its order
CareerPage == [Amazon |-> <<"amazon-1", "amazon-2">>, Intuit |-> <<"intuit-1">>]

CompanyLists == UNION {[1..k -> CompanyNames] : k \in 0..MaxCompanies}

InitCompany ==
    /\ companies \in CompanyLists
    /\ company = 1
    /\ new_jobs_count = <<>>
    /\ phase = "cycle"
    /\ emailed = {}
    /\ pc = "call"
    /\ ClassifierIdle
    /\ RoutinesIdle
    /\ LoopIdle
    /\ SendIdle
    /\ PagingIdle

\* the urls of new_jobs that are not in seen_jobs (lines 39-41)
NewUrls(new_jobs) == SelectSeq(new_jobs, LAMBDA u : u \notin seen_jobs)

\* a company with a scraper: scrape, then mark and mail what is new
\* (lines 33-53)
ScrapeCompany ==
    /\ phase = "cycle"
    /\ company \in DOMAIN companies
    /\ companies[company] \in SCRAPERS
    /\ \E new_jobs \in Listed(CareerPage[companies[company]]) :
           /\ seen_jobs' = seen_jobs \cup Range(NewUrls(new_jobs))
           /\ emailed' = emailed \cup Range(NewUrls(new_jobs))
           /\ new_jobs_count' = <<Len(NewUrls(new_jobs))>>
    /\ company' = company + 1
    /\ UNCHANGED <<companies, phase>>
    /\ UNCHANGED <<board, seen_file, cycle_jobs, new_jobs_to_send, channel, admitted,
                   flags, sent, alerted>>
    /\ UNCHANGED <<classifierVars, routineVars, sendVars, pageVars>>

\* a company without a scraper: continue (lines 28-31)
NoScraper ==
    /\ phase = "cycle"
    /\ company \in DOMAIN companies
    /\ companies[company] \notin SCRAPERS
    /\ company' = company + 1
    /\ UNCHANGED <<companies, new_jobs_count, phase, emailed>>
    /\ UNCHANGED <<classifierVars, routineVars, loopVars, sendVars, pageVars>>

\* save_seen_jobs(seen_jobs, new_jobs_count, SEEN_JOBS_FILE) after the loop
\* over the companies (line 55)
SaveSeenJobsOfCompanies ==
    /\ phase = "cycle"
    /\ company > Len(companies)
    /\ new_jobs_count # <<>>
    /\ seen_file' = seen_jobs
    /\ phase' = "sleep"
    /\ UNCHANGED <<companies, company, new_jobs_count, emailed>>
    /\ UNCHANGED <<board, seen_jobs, cycle_jobs, new_jobs_to_send, channel, admitted,
                   flags, sent, alerted>>
    /\ UNCHANGED <<classifierVars, routineVars, sendVars, pageVars>>

\* line 55 reads new_jobs_count before any assignment: UnboundLocalError
\* leaves main
UnboundLocalError ==
    /\ phase = "cycle"
    /\ company > Len(companies)
    /\ new_jobs_count = <<>>
    /\ phase' = "raised"
    /\ UNCHANGED <<companies, company, new_jobs_count, emailed>>
    /\ UNCHANGED <<classifierVars, routineVars, loopVars, sendVars, pageVars>>

\* time.sleep(sleep_minutes * 60), then the next cycle (lines 57-63, 16-18)
Sleep ==
    /\ phase = "sleep"
    /\ phase' = "cycle"
    /\ company' = 1
    /\ UNCHANGED <<companies, new_jobs_count, emailed>>
    /\ UNCHANGED <<classifierVars, routineVars, loopVars, sendVars, pageVars>>

NextCompany ==
    \/ ScrapeCompany
    \/ NoScraper
    \/ SaveSeenJobsOfCompanies
    \/ UnboundLocalError
    \/ Sleep

SpecCompany == InitCompany /\ [][NextCompany]_vars

(***************************************************************************)
(* What the claims speak of, stated on the normalised fields of the        *)
(* posting in hand with the vocabularies as the specification lists them.  *)
(***************************************************************************)
SpecPositiveWords == {Chars(w) : w \in {"junior", "associate", "intern"}}
SpecPositivePhrases ==
    {Chars(ph) : ph \in {"entry level", "entry-level", "new grad", "recent graduate",
                         "early career", "internship experience", "student",
                         "beginner"}}
SpecNegativeWords ==
    {Chars(w) : w \in {"senior", "head", "sr", "staff", "lead", "manager",
                       "principal", "expert", "vp", "director", "chief", "phd"}}

\* "intern" stands in t as a whole word
InternIn(t) == SearchWord(Chars("intern"), t)

\* a negative keyword stands in t as a whole word
NegativeWordIn(t) == \E w \in SpecNegativeWords : SearchWord(w, t)

\* a positive keyword stands in t as a whole word, or a positive phrase as a substring
PositiveIn(t) ==
    \/ \E w \in SpecPositiveWords : SearchWord(w, t)
    \/ \E ph \in SpecPositivePhrases : Contains(ph, t)

\* t holds a years expression: one of the three patterns matches somewhere
YearsExpressionIn(t) ==
    \E i \in 1..Len(t) : RangeAt(t, i).ok \/ PlusAt(t, i).ok \/ StandaloneAt(t, i).ok

\* the blob: minimum_qualifications, preferred_qualifications and description,
\* concatenated with single spaces
Blob == Strip(min_qual \o <<" ">> \o pref_qual \o <<" ">> \o description)

Done == pc = "done"

\* rules 1-3 do not decide the posting
NotDecidedByRules1to3 ==
    /\ ~InternIn(title)
    /\ ~NegativeWordIn(title)
    /\ ~PositiveIn(title)
    /\ ~PositiveIn(description)

\* neither a positive indicator nor a negative keyword
Neutral(t) == ~PositiveIn(t) /\ ~NegativeWordIn(t)

\* C1: a posting whose normalised title holds the whole word "intern" is
\* admitted, whatever else the title and the other fields hold.
C1_InternshipOverride ==
    Done /\ InternIn(title) => verdict = TRUE

\* C1 happens: an intern title that also carries a negative keyword
C1_Witness ==
    Done /\ InternIn(title) /\ NegativeWordIn(title) /\ verdict = TRUE

\* C2: a posting whose normalised title lacks the whole word "intern" and holds
\* a negative keyword as a whole word is rejected, also when a positive
\* indicator or a low years requirement stands in the title or the other fields.
C2_TitleLevelRejection ==
    Done /\ ~InternIn(title) /\ NegativeWordIn(title) => verdict = FALSE

\* C2 happens: a negative title over a positive description or qualification
C2_Witness ==
    /\ Done /\ ~InternIn(title) /\ NegativeWordIn(title)
    /\ PositiveIn(description) \/ PositiveIn(min_qual) \/ HasZeroStartRange(Blob)
    /\ verdict = FALSE

\* C3: a posting whose title has neither the whole word "intern" nor a negative
\* keyword is admitted when its title or description holds a positive keyword
\* or phrase, whatever years requirement the description or qualifications state.
C3_TitleDescriptionAdmission ==
    /\ Done /\ ~InternIn(title) /\ ~NegativeWordIn(title)
    /\ PositiveIn(title) \/ PositiveIn(description)
    => verdict = TRUE

\* C3 happens: a positive description beside a requirement of more than one year
C3_Witness ==
    /\ Done /\ ~InternIn(title) /\ ~NegativeWordIn(title)
    /\ PositiveIn(description)
    /\ extract_min_years(Blob) > 1
    /\ verdict = TRUE

C5_ZeroStartRangeOverride ==
    Done /\ NotDecidedByRules1to3 /\ HasZeroStartRange(Blob) => verdict = TRUE

\* C5 happens: a zero-start range in the description beside "5+ years" elsewhere
C5_Witness ==
    /\ Done /\ NotDecidedByRules1to3
    /\ HasZeroStartRange(description)
    /\ 5 \in Range(MinYearsList(min_qual \o <<" ">> \o pref_qual))
    /\ verdict = TRUE

\* C6: a posting with a neutral title whose description holds a negative keyword
\* as a whole word, with no positive indicator and no years expression in any
\* field, is rejected.
C6_NegativeDescriptionRejected ==
    /\ Done /\ ~InternIn(title) /\ ~NegativeWordIn(title)
    /\ NegativeWordIn(description)
    /\ ~PositiveIn(title) /\ ~PositiveIn(description)
    /\ ~PositiveIn(min_qual) /\ ~PositiveIn(pref_qual)
    /\ ~YearsExpressionIn(title) /\ ~YearsExpressionIn(Blob)
    => verdict = FALSE

\* C7: a posting with a neutral title and description whose preferred
\* qualifications hold a negative keyword, with no years expression, is rejected.
C7_NegativePrefQualRejected ==
    /\ Done /\ Neutral(title) /\ Neutral(description)
    /\ NegativeWordIn(pref_qual)
    /\ ~YearsExpressionIn(Blob)
    => verdict = FALSE

\* C8: a posting with a neutral title and description whose qualifications hold
\* a positive keyword or phrase is rejected when the minimum-years requirement
\* exceeds 1 and there is no zero-start range.
C8_NumericBeforeQualificationKeywords ==
    /\ Done /\ Neutral(title) /\ Neutral(description)
    /\ PositiveIn(min_qual) \/ PositiveIn(pref_qual)
    /\ extract_min_years(Blob) > 1
    /\ ~HasZeroStartRange(Blob)
    => verdict = FALSE

\* C8 happens: a positive phrase in the qualifications beside more than one year
C8_Witness ==
    /\ Done /\ Neutral(title) /\ Neutral(description)
    /\ Contains(Chars("internship experience"), pref_qual)
    /\ extract_min_years(Blob) > 1
    /\ verdict = FALSE

\* the field is an empty string or is absent from the record
EmptyOrAbsent(v) == v = StrVal("") \/ v = Absent

AllEmptyOrAbsent ==
    /\ EmptyOrAbsent(job.job_title)
    /\ EmptyOrAbsent(job.job_description)
    /\ EmptyOrAbsent(job.minimum_qualifications)
    /\ EmptyOrAbsent(job.preferred_qualifications)

\* C9: when the four fields are all empty strings or absent, the posting is
\* admitted, by the default rule (step 6).
C9_EmptyInput ==
    Done /\ AllEmptyOrAbsent => verdict = TRUE /\ step = 6

\* C9 happens: a record with absent and with empty fields
C9_Witness ==
    /\ Done /\ AllEmptyOrAbsent
    /\ job.job_title = StrVal("")
    /\ job.job_description = Absent
    /\ verdict = TRUE

\* the posting has text, no negative keyword in the title and no positive
\* indicator in any field
C10_NoSignal ==
    /\ title # <<>> \/ Blob # <<>>
    /\ ~NegativeWordIn(title)
    /\ ~PositiveIn(title) /\ ~PositiveIn(description)
    /\ ~PositiveIn(min_qual) /\ ~PositiveIn(pref_qual)

Blanked(v) == IF v.kind = "str" THEN v ELSE StrVal("")

BlankedJob(j) ==
    Job(Blanked(j.job_title), Blanked(j.job_description),
        Blanked(j.minimum_qualifications), Blanked(j.preferred_qualifications))

\* C12: is_entry_level never raises: whatever each of the four fields is
\* (absent, None, empty, not a string, any string, markup included), the call
\* returns a boolean, the one it returns when the absent, None and non-string
\* fields are empty strings.
C12_NeverRaises ==
    /\ pc # "raised"
    /\ Done => verdict \in BOOLEAN
    /\ Done /\ BlankedJob(job) # job
       => verdict = is_entry_level(BlankedJob(job)).verdict

\* w is a word of t: it stands in t with no letter, digit or underscore next to
\* it on either side
IsWordOf(w, t) ==
    \E i \in 1..Len(t) :
        /\ LitAt(t, w, i)
        /\ ~IsWordChar(At(t, i - 1))
        /\ ~IsWordChar(At(t, i + Len(w)))

\* w stands in t, as a word or as a part of one
IsPartOf(w, t) == \E i \in 1..Len(t) : LitAt(t, w, i)

\* C13: rules 1, 2 and 3 count a keyword only where it is a whole word: rule 1
\* decides only when "intern" is a word of the title, rule 2 only when a
\* negative keyword is a word of the title, rule 3 only when a positive keyword
\* is a word of the title or the description or a positive phrase stands there.
C13_WholeWordMatching ==
    Done =>
        /\ step = 1 => IsWordOf(Chars("intern"), title)
        /\ step = 2 => \E w \in SpecNegativeWords : IsWordOf(w, title)
        /\ step = 3 =>
               \/ \E w \in SpecPositiveWords :
                      IsWordOf(w, title) \/ IsWordOf(w, description)
               \/ \E ph \in SpecPositivePhrases :
                      IsPartOf(ph, title) \/ IsPartOf(ph, description)

\* C13 happens: "lead" and "intern" stand in the title as parts of longer words
\* only ("leadership", "internship"), and neither rule 1 nor rule 2 decides
C13_Witness ==
    /\ Done
    /\ IsPartOf(Chars("lead"), title)
    /\ IsPartOf(Chars("intern"), title)
    /\ ~IsWordOf(Chars("intern"), title)
    /\ \A w \in SpecNegativeWords : ~IsWordOf(w, title)
    /\ step \notin {1, 2}

\* the string of the characters cs
RECURSIVE StrOf(_)
StrOf(cs) == IF cs = <<>> THEN "" ELSE cs[1] \o StrOf(Tail(cs))

UpperChar(c) ==
    IF c \in Range(LowerChars)
    THEN UpperChars[CHOOSE i \in DOMAIN LowerChars : LowerChars[i] = c]
    ELSE c

\* the text in capitals
Upper(cs) == [i \in 1..Len(cs) |-> UpperChar(cs[i])]

\* cs[a..b] is a whole word of the text of cs: a longest run of letters, digits
\* and underscores that lies outside every tag
IsWordSpan(cs, a, b) ==
    /\ a <= b
    /\ \A k \in a..b :
           /\ IsWordChar(cs[k])
           /\ ~InTag(cs, {p \in 1..Len(cs) : TagOpensAt(cs, p)}, k)
    /\ ~IsWordChar(At(cs, a - 1))
    /\ ~IsWordChar(At(cs, b + 1))

\* the text with the word cs[a..b] wrapped in a tag: <b>word</b>
Wrapped(cs, a, b) ==
    SubSeq(cs, 1, a - 1) \o <<"<", "b", ">">> \o SubSeq(cs, a, b)
        \o <<"<", "/", "b", ">">> \o SubSeq(cs, b + 1, Len(cs))

FieldNames ==
    {"job_title", "job_description", "minimum_qualifications",
     "preferred_qualifications"}

\* the posting j with the text cs in its field f
WithField(j, f, cs) == [j EXCEPT ![f] = StrVal(StrOf(cs))]

\* C14: the verdict of a posting is the verdict of the same posting with a
\* field in capitals, and of the same posting with a whole word of a field
\* wrapped in an HTML tag.
C14_CaseMarkupInsensitive ==
    Done =>
        \A f \in FieldNames :
            job[f].kind = "str" =>
                /\ is_entry_level(WithField(job, f, Upper(Chars(job[f].val)))).verdict
                       = verdict
                /\ \A a, b \in 1..Len(job[f].val) :
                       IsWordSpan(Chars(job[f].val), a, b) =>
                           is_entry_level(
                               WithField(job, f, Wrapped(Chars(job[f].val), a, b))
                           ).verdict = verdict

\* the forms a text can have
NoUpperCase(t) == \A i \in 1..Len(t) : t[i] \notin Range(UpperChars)

\* no "<" followed by a letter or "/" and closed by a ">"
NoHtmlTag(t) ==
    \A i \in 1..Len(t) :
        ~(/\ t[i] = "<"
          /\ At(t, i + 1) \in Letters \cup {"/"}
          /\ \E k \in (i + 1)..Len(t) : t[k] = ">")

Whitespace == {" ", "\t", "\n", "\r"}

NoOuterWhitespace(t) ==
    t # <<>> => t[1] \notin Whitespace /\ t[Len(t)] \notin Whitespace

SingleSpaces(t) ==
    \A i \in 1..Len(t) :
        t[i] \in Whitespace => t[i] = " " /\ At(t, i + 1) \notin Whitespace

C16_EmptyForNonText ==
    raw.kind # "str" \/ raw.val = "" =>
        /\ pc # "raised"
        /\ Done => cleaned = <<>>

\* C16 happens: clean_text(None) has returned
C16_Witness ==
    Done /\ raw = NoneVal /\ cleaned = <<>>

\* the integers that the range, the at-least and the standalone pattern
\* capture in the lower-cased text t, taken together
Captures(t) ==
    Range(FindAll("range", t)) \cup Range(FindAll("plus", t))
        \cup Range(FindAll("standalone", t))

LeastOrZero(S) == IF S = {} THEN 0 ELSE MinOf(S)

\* the parts ps with the parts i and i+1 exchanged
Exchanged(ps, i) ==
    [k \in 1..Len(ps) |-> IF k = i THEN ps[i + 1] ELSE IF k = i + 1 THEN ps[i] ELSE ps[k]]

\* C17: extract_min_years returns the least of all integers the three patterns
\* capture, 0 when they capture none, and the same for the text with two
\* neighbouring expressions exchanged (hence, every text of the parts being
\* an input, for the expressions in any order).
C17_Pooling ==
    Done =>
        /\ years = LeastOrZero(Captures(Lower(Chars(raw.val))))
        /\ \A i \in 1..(Len(parts) - 1) :
               extract_min_years(Chars(JoinItems(Exchanged(parts, i)))) = years

\* C17 happens: "5+ years" before "0-2 years" gives 0, the result of a text
\* without any years expression
C17_Witness ==
    /\ Done
    /\ parts = <<"5+ years", "and", "0-2 years">>
    /\ years = 0
    /\ extract_min_years(Chars("and")) = 0

\* the part is a range "N-M years" or "N-M+ years" and nothing else
IsRangePart(p) ==
    /\ RangeAt(Lower(Chars(p)), 1).ok
    /\ RangeAt(Lower(Chars(p)), 1).end = Len(p) + 1
    /\ \E i \in 1..Len(p) : SubSeq(p, i, i) = "-" /\ SubSeq(p, i + 1, i + 1) \in Digits

\* the first number N of the range part p
FirstNumber(p) == RangeAt(Lower(Chars(p)), 1).cap

\* part i is a range and the only years expression of the text
OnlyRange(i) ==
    /\ IsRangePart(parts[i])
    /\ \A k \in 1..Len(parts) :
           k # i => ~YearsExpressionIn(Lower(Chars(parts[k])))

\* C18: for a text whose only years expression is one range "N-M years" or
\* "N-M+ years", extract_min_years returns the first number N.
C18_RangeLowerBound ==
    Done => \A i \in 1..Len(parts) : OnlyRange(i) => years = FirstNumber(parts[i])

\* C19: every posting that is recorded as seen, queued for its message or
\* notified was admitted by is_entry_level before.
C19_SeenOnlyIfAdmitted ==
    /\ seen_jobs \subseteq admitted
    /\ {new_jobs_to_send[i].key : i \in DOMAIN new_jobs_to_send} \subseteq admitted
    /\ channel \subseteq admitted

\* C20: every posting whose key is in seen_jobs and written to the file has
\* had its message accepted by Discord at least once.
C20_PersistedOnlyIfDelivered ==
    seen_file \subseteq channel

\* the postings a step appends to new_jobs_to_send
NewlyQueued ==
    {new_jobs_to_send'[i] : i \in (Len(new_jobs_to_send) + 1)..Len(new_jobs_to_send')}

\* no two postings of the queue share a key or a url
QueuedOnce ==
    \A i, k \in DOMAIN new_jobs_to_send :
        i # k => /\ new_jobs_to_send[i].key # new_jobs_to_send[k].key
                 /\ new_jobs_to_send[i].url # new_jobs_to_send[k].url

YearValues(t) == Range(MinYearsList(t))

BlobFields == {min_qual, pref_qual, description}

\* C22: a posting that rules 1-3 do not decide is admitted when one of
\* minimum_qualifications, preferred_qualifications and description states 0 or
\* 1 year, whatever the others state; it is rejected only when the blob states
\* more than 1 year, and then every year value of every field is greater than
\* 1; the year values of each field are year values of the blob.
C22_MostPermissiveBound ==
    Done /\ NotDecidedByRules1to3 =>
        /\ (\E f \in BlobFields : \E v \in YearValues(f) : v <= 1) => verdict = TRUE
        /\ verdict = FALSE =>
               /\ extract_min_years(Blob) > 1
               /\ \A f \in BlobFields : \A v \in YearValues(f) : v > 1
        /\ \A f \in BlobFields : YearValues(f) \subseteq YearValues(Blob)

\* C22 happens: one year in the preferred qualifications admits a posting
\* whose minimum qualifications ask for five
C22_Witness ==
    /\ Done /\ NotDecidedByRules1to3
    /\ 5 \in YearValues(min_qual)
    /\ YearValues(pref_qual) = {1}
    /\ verdict = TRUE

\* send_discord_message has left: it returned or an exception left it
Left == returned # "none"

Only429 == \A i \in DOMAIN received : received[i].status = 429

\* C23: send_discord_message makes at most max_retries POST attempts; an
\* attempt follows only a 429 response; and when every response is a 429 it
\* stops after exactly max_retries attempts.
C23_BoundedRetries ==
    /\ Len(received) <= max_retries
    /\ \A i \in 1..(Len(received) - 1) : received[i].status = 429
    /\ Left /\ Only429 => Len(received) = max_retries

\* C24: send_discord_message returns True exactly when an attempt received
\* 204; the first response that is neither 204 nor 429 is the last and the
\* function returns False on it; and it returns False when all max_retries
\* attempts received 429.
C24_ReturnValue ==
    /\ returned = "True" <=> \E i \in DOMAIN received : received[i].status = 204
    /\ \A i \in DOMAIN received :
           received[i].status \notin {204, 429} =>
               i = Len(received) /\ returned = "False"
    /\ Left /\ Only429 /\ Len(received) = max_retries => returned = "False"

\* the call is a cycle start message ("NEW JOB ALERT"), or a posting's message
IsHeader(c) == c.content = "NEW JOB ALERT"
IsPostingMessage(c) == c.content \in {"New Job at", "New Internship at"}

\* the webhook of a source and an internship flag
RoutedTo(simplify, internship) ==
    CASE simplify /\ ~internship -> "SIMPLIFY_WEBHOOK_URL"
      [] simplify /\ internship -> "SIMPLIFY_INTERNSHIP_WEBHOOK_URL"
      [] ~simplify /\ ~internship -> "LINKEDIN_WEBHOOK_URL"
      [] ~simplify /\ internship -> "LINKEDIN_INTERNSHIP_WEBHOOK_URL"

\* every message of the cycle has been sent
CycleSent == board > Len(Boards) /\ new_jobs_to_send = <<>>

C26_MajorityStaleStop ==
    stop = "majority stale" => 2 * StaleCount(page_hits) > Len(page_hits)

\* C30: for every list of companies, the empty list and a list of companies
\* without a scraper among them, no cycle of the company loop raises: a cycle
\* whose loop over the companies has ended persists seen_jobs and sleeps.
C30_CycleReachesSave ==
    phase # "raised"

\* C27: step 5 never gives the verdict: when the blob is not empty, one of steps
\* 1-4 returns; the default (step 6) is reached only with both qualification
\* fields empty, where the test of step 5 is false.
C27_Rule5NeverDecides ==
    Done =>
        /\ step # 5
        /\ Blob # <<>> => step \in 1..4
        /\ step = 6 =>
               /\ min_qual = <<>> /\ pref_qual = <<>>
               /\ ~HasPositiveQual(min_qual, pref_qual)

\* C27 happens: the qualifications hold a positive phrase and no year, rules
\* 1-3 do not decide, and step 4 returns
C27_Witness ==
    /\ Done /\ NotDecidedByRules1to3
    /\ PositiveIn(min_qual) \/ PositiveIn(pref_qual)
    /\ ~YearsExpressionIn(Blob)
    /\ step = 4

\* the verdict of is_entry_level with the zero-start branch taken out of step 4
VerdictWithoutZeroStart ==
    IF HasInternInTitle(title) THEN TRUE
    ELSE IF HasNegativeKeywordsInTitle(title) THEN FALSE
    ELSE IF HasPositiveTitleDescription(title, description) THEN TRUE
    ELSE IF Blob = <<>> THEN TRUE
    ELSE extract_min_years(Blob) <= 1

\* C28: when the zero-start range pattern matches the blob, extract_min_years
\* of the blob is 0; and the verdict of every posting is the verdict of the
\* classifier without the zero-start branch.
C28_ZeroStartRedundant ==
    Done =>
        /\ HasZeroStartRange(Blob) => extract_min_years(Blob) = 0
        /\ verdict = VerdictWithoutZeroStart

\* C28 happens: step 4 admits a posting by its zero-start range while its blob
\* also asks for five years
C28_Witness ==
    /\ Done /\ step = 4
    /\ HasZeroStartRange(Blob)
    /\ {0, 5} \subseteq YearValues(Blob)
    /\ verdict = TRUE

====
